---- MODULE Spec2Model ----
(***************************************************************************)
(* Hotel review analyser (app.py): a Flask application that scores reviews *)
(* against a hotel description with embeddings and cosine similarity.      *)
(*                                                                         *)
(* The model follows the request handlers analyze and custom_review, the   *)
(* orchestrator analyze_hotel_reviews, the memoised get_cached_embedding   *)
(* (functools.lru_cache around get_embedding) and cosine_similarity.       *)
(* A handler thread yields only inside get_cached_embedding: at the cache  *)
(* lookup, at the provider call and at the store of the result.            *)
(***************************************************************************)
EXTENDS Integers, Sequences, FiniteSets, TLC

VARIABLES
    cache,              \* lru_cache contents: <<[key, value]>>, oldest use first
    pc,                 \* per thread: "idle", "lookup", "provider", "store", "done"
    request,            \* per thread: the request being served
    want,               \* per thread: argument of the running get_cached_embedding
    result,             \* per thread: what get_embedding returned, not yet stored
    step,               \* per thread: index of the text being embedded (0 = hotel_text)
    hotel_embedding,    \* per thread: local hotel_embedding
    review_embedding,   \* per thread: local review_embedding
    normal_results,     \* per thread: local normal_results
    anomalous_results,  \* per thread: local anomalous_results
    response,           \* per thread: the HTTP response of the finished handler
    requested,          \* history, per thread: texts passed to get_cached_embedding
    fetched,            \* history, per thread: texts passed to get_embedding
    last_returned,      \* history, per text: vector last returned while the text stayed cached
    recency             \* history: the cached texts, least recently accessed first

vars == <<cache, pc, request, want, result, step, hotel_embedding, review_embedding,
          normal_results, anomalous_results, response, requested, fetched, last_returned,
          recency>>

-----------------------------------------------------------------------------
(* Bounds *)

\* capacity of the cache in the model (the program sets maxsize=100)
maxsize == 2

Threads == {"t1", "t2"}

-----------------------------------------------------------------------------
(* Configuration and data tables *)

\* SIMILARITY_THRESHOLD: 0.75, as the fraction 3/4
SIMILARITY_THRESHOLD == [num |-> 3, den |-> 4]

\* The tables keep their shape with fewer and shorter entries: two hotels, the
\* first with two normal reviews and one anomalous, the second with one of each.
HOTEL_DATA ==
    [hotel_1 |-> [name |-> "Grand", description |-> "Luxury hotel.",
                  features |-> <<"5 stars", "Pool">>],
     hotel_2 |-> [name |-> "Hostel", description |-> "Budget hostel.",
                  features |-> <<"Budget">>]]

REVIEWS_DATASET ==
    [hotel_1 |-> <<"Great rooms", "Clean pool">>,
     hotel_2 |-> <<"Cheap and loud">>]

ANOMALOUS_REVIEWS ==
    [hotel_1 |-> <<"Very cheap">>,
     hotel_2 |-> <<"Luxury spa">>]

\* dict.get(key, []) of the review tables
Get(table, hotel_id) == IF hotel_id \in DOMAIN table THEN table[hotel_id] ELSE <<>>

RECURSIVE join(_)
join(features) ==
    IF features = <<>> THEN ""
    ELSE IF Len(features) = 1 THEN features[1]
    ELSE features[1] \o ", " \o join(Tail(features))

\* the f-string that renders a hotel record
hotel_text(hotel_id) ==
    LET hotel == HOTEL_DATA[hotel_id]
    IN  hotel.name \o ". " \o hotel.description \o " Features: " \o join(hotel.features)

-----------------------------------------------------------------------------
(* Embedding vectors the provider may answer with *)

ZeroVec  == <<0, 0, 0, 0, 0>>
VecA     == <<4, 0, 0, 0, 0>>
VecB     == <<3, 2, 1, 1, 1>>
VecC     == <<0, 4, 0, 0, 0>>
ShortVec == <<1, 0>>

Vectors == {ZeroVec, VecA, VecB, VecC, ShortVec}

RECURSIVE dot(_, _)
dot(vec1, vec2) ==
    IF vec1 = <<>> THEN 0 ELSE vec1[1] * vec2[1] + dot(Tail(vec1), Tail(vec2))

\* np.linalg.norm, exact for the vectors above
norm(vec) == CHOOSE r \in 0..dot(vec, vec) : r * r = dot(vec, vec)

\* A float is a fraction num/den; den = 0 is the NaN that 0.0/0.0 yields.
IsNaN(x) == x.den = 0

\* x < y on floats: every comparison with NaN is False
LessThan(x, y) == ~IsNaN(x) /\ ~IsNaN(y) /\ x.num * y.den < y.num * x.den

cosine_similarity(vec1, vec2) ==
    IF Len(vec1) # Len(vec2)
    THEN [raised |-> TRUE, num |-> 0, den |-> 0]     \* np.dot: ValueError
    ELSE [raised |-> FALSE, num |-> dot(vec1, vec2), den |-> norm(vec1) * norm(vec2)]

\* a record that also flags a similarity equal to the threshold
ResultRecord_flags_boundary(review, similarity) ==
    [review |-> review,
     similarity |-> [num |-> similarity.num, den |-> similarity.den],
     needs_check |-> ~LessThan(SIMILARITY_THRESHOLD, similarity) /\ ~IsNaN(similarity)]

\* the dict appended to normal_results / anomalous_results
ResultRecord(review, similarity) ==
    [review |-> review,
     similarity |-> [num |-> similarity.num, den |-> similarity.den],
     needs_check |-> LessThan(similarity, SIMILARITY_THRESHOLD)]

-----------------------------------------------------------------------------
(* lru_cache(maxsize) *)

Keys(c) == {c[i].key : i \in 1..Len(c)}

Index(c, key) == CHOOSE i \in 1..Len(c) : c[i].key = key

Value(c, key) == c[Index(c, key)].value

Remove(c, i) == SubSeq(c, 1, i - 1) \o SubSeq(c, i + 1, Len(c))

\* a cache whose hits leave the order alone (first in, first out)
cache_hit_keeps_order(c, key) == c

\* a hit moves the entry to the most-recently-used end
cache_hit(c, key) == Remove(c, Index(c, key)) \o <<c[Index(c, key)]>>

\* a store that does not look for the key again after the provider call
cache_store_no_recheck(c, key, value) ==
    IF Len(c) >= maxsize THEN Tail(c) \o <<[key |-> key, value |-> value]>>
    ELSE c \o <<[key |-> key, value |-> value]>>

\* the key may have been added during the provider call: then nothing is stored;
\* otherwise a full cache drops its oldest entry for the new one
cache_store(c, key, value) ==
    IF key \in Keys(c) THEN c
    ELSE IF Len(c) >= maxsize THEN Tail(c) \o <<[key |-> key, value |-> value]>>
    ELSE c \o <<[key |-> key, value |-> value]>>

-----------------------------------------------------------------------------
(* Requests *)

None == <<>>
Some(x) == <<x>>

\* Python truthiness of a JSON field that is absent (None) or a string
Truthy(field) == field # None /\ field[1] # ""

NoRequest == [kind |-> "none", body |-> FALSE, hotel_id |-> None, review_text |-> None]

\* GET /api/analyze/<hotel_id>: the route only matches a non-empty id
AnalyzeIds == {"hotel_1", "hotel_2", "hotel_9"}

\* POST /api/custom_review: body absent, or a JSON object with either field optional
CustomIds == {None, Some(""), Some("hotel_1"), Some("hotel_2"), Some("hotel_9")}
CustomTexts == {None, Some(""), Some("Custom text"), Some("Clean pool")}

AnalyzeRequest(hotel_id) ==
    [kind |-> "analyze", body |-> FALSE, hotel_id |-> Some(hotel_id), review_text |-> None]

CustomRequest(body, hotel_id, review_text) ==
    [kind |-> "custom", body |-> body, hotel_id |-> hotel_id, review_text |-> review_text]

CustomRequests(ids, texts) ==
    {CustomRequest(FALSE, None, None)}
        \cup {CustomRequest(TRUE, i, t) : i \in ids, t \in texts}

\* the anomalous reviews embedded before the normal ones
Plan_anomalous_first(req) ==
    LET hotel_id == req.hotel_id[1]
    IN  IF req.kind = "analyze"
        THEN <<hotel_text(hotel_id)>> \o Get(ANOMALOUS_REVIEWS, hotel_id)
                 \o Get(REVIEWS_DATASET, hotel_id)
        ELSE <<hotel_text(hotel_id), req.review_text[1]>>

\* the texts a request embeds, in the order the code asks for them
Plan(req) ==
    LET hotel_id == req.hotel_id[1]
    IN  IF req.kind = "analyze"
        THEN <<hotel_text(hotel_id)>> \o Get(REVIEWS_DATASET, hotel_id)
                 \o Get(ANOMALOUS_REVIEWS, hotel_id)
        ELSE <<hotel_text(hotel_id), req.review_text[1]>>

AllTexts ==
    UNION {{hotel_text(h)} \cup {REVIEWS_DATASET[h][i] : i \in 1..Len(REVIEWS_DATASET[h])}
               \cup {ANOMALOUS_REVIEWS[h][i] : i \in 1..Len(ANOMALOUS_REVIEWS[h])}
           : h \in DOMAIN HOTEL_DATA}
        \cup {t[1] : t \in {x \in CustomTexts : Truthy(x)}}

-----------------------------------------------------------------------------
(* Responses *)

NoResponse ==
    [status |-> 0, error |-> "", normal_reviews |-> <<>>, anomalous_reviews |-> <<>>,
     review |-> <<>>, threshold |-> <<>>]

\* jsonify({"error": ...}), status
ErrorResponse(status, message) == [NoResponse EXCEPT !.status = status, !.error = message]

\* an unknown hotel reported as a server error
HotelNotFound_as_server_error == ErrorResponse(500, "Hotel not found")

\* jsonify({"error": "Hotel not found"}), 404
HotelNotFound == ErrorResponse(404, "Hotel not found")

\* jsonify({"error": "hotel_id and review_text are required"}), 400
FieldsRequired == ErrorResponse(400, "hotel_id and review_text are required")

\* except Exception as e: jsonify({"error": str(e)}), 500
ServerError(message) == ErrorResponse(500, message)

\* the dict analyze_hotel_reviews returns
ReportResponse(normal, anomalous) ==
    [NoResponse EXCEPT !.status = 200, !.normal_reviews = normal,
                       !.anomalous_reviews = anomalous,
                       !.threshold = <<SIMILARITY_THRESHOLD>>]

\* the dict custom_review builds
SingleResponse(record) ==
    [NoResponse EXCEPT !.status = 200, !.review = <<record>>,
                       !.threshold = <<SIMILARITY_THRESHOLD>>]

\* jsonify(payload) inside the handler's try block. needs_check is the numpy
\* boolean that similarity < SIMILARITY_THRESHOLD yields; whether the JSON
\* encoder in use accepts it is not decided by the source, so a payload with a
\* result record is either serialised or rejected with TypeError.
jsonify(payload) ==
    {payload} \cup
        IF payload.normal_reviews \o payload.anomalous_reviews \o payload.review # <<>>
        THEN {ServerError("TypeError")}
        ELSE {}

-----------------------------------------------------------------------------
(* Initial state *)

Init ==
    /\ cache = <<>>
    /\ pc = [th \in Threads |-> "idle"]
    /\ request = [th \in Threads |-> NoRequest]
    /\ want = [th \in Threads |-> ""]
    /\ result = [th \in Threads |-> <<>>]
    /\ step = [th \in Threads |-> 0]
    /\ hotel_embedding = [th \in Threads |-> <<>>]
    /\ review_embedding = [th \in Threads |-> <<>>]
    /\ normal_results = [th \in Threads |-> <<>>]
    /\ anomalous_results = [th \in Threads |-> <<>>]
    /\ response = [th \in Threads |-> NoResponse]
    /\ requested = [th \in Threads |-> <<>>]
    /\ fetched = [th \in Threads |-> <<>>]
    /\ last_returned = [t \in AllTexts |-> None]
    /\ recency = <<>>

-----------------------------------------------------------------------------
(* History of cache accesses *)

\* text was just inserted or hit: it becomes the most recently accessed, and
\* texts that are no longer cached (keys is the new key set) leave the history
Accessed(r, text, keys) ==
    SelectSeq(r, LAMBDA t : t # text /\ t \in keys) \o <<text>>

-----------------------------------------------------------------------------
(* Handlers *)

\* the handler ends with this response
Finish(th, resp) ==
    /\ pc' = [pc EXCEPT ![th] = "done"]
    /\ response' = [response EXCEPT ![th] = resp]

\* the handler ends with return jsonify(payload)
FinishJson(th, payload) == \E resp \in jsonify(payload) : Finish(th, resp)

\* the handler calls get_cached_embedding(text)
Call(th, text) ==
    /\ pc' = [pc EXCEPT ![th] = "lookup"]
    /\ want' = [want EXCEPT ![th] = text]
    /\ requested' = [requested EXCEPT ![th] = Append(@, text)]

\* analyze(hotel_id) entering analyze_hotel_reviews
analyze(th, hotel_id) ==
    /\ pc[th] = "idle"
    /\ request' = [request EXCEPT ![th] = AnalyzeRequest(hotel_id)]
    /\ IF hotel_id \notin DOMAIN HOTEL_DATA
       THEN /\ Finish(th, HotelNotFound)
            /\ UNCHANGED <<want, requested>>
       ELSE /\ Call(th, hotel_text(hotel_id))
            /\ UNCHANGED response
    /\ UNCHANGED <<cache, result, step, hotel_embedding, review_embedding,
                   normal_results, anomalous_results, fetched, last_returned, recency>>

\* custom_review() up to its first get_cached_embedding
custom_review(th, req) ==
    /\ pc[th] = "idle"
    /\ request' = [request EXCEPT ![th] = req]
    /\ IF ~req.body
       THEN \* data is None: data.get raises AttributeError, caught by except Exception
            /\ Finish(th, ServerError("AttributeError"))
            /\ UNCHANGED <<want, requested>>
       ELSE IF ~Truthy(req.hotel_id) \/ ~Truthy(req.review_text)
       THEN /\ Finish(th, FieldsRequired)
            /\ UNCHANGED <<want, requested>>
       ELSE IF req.hotel_id[1] \notin DOMAIN HOTEL_DATA
       THEN /\ Finish(th, HotelNotFound)
            /\ UNCHANGED <<want, requested>>
       ELSE /\ Call(th, hotel_text(req.hotel_id[1]))
            /\ UNCHANGED response
    /\ UNCHANGED <<cache, result, step, hotel_embedding, review_embedding,
                   normal_results, anomalous_results, fetched, last_returned, recency>>

\* get_cached_embedding returned vec to the handler: the rest of the loop body,
\* up to the next get_cached_embedding or the response
Resume(th, vec) ==
    LET req  == request[th]
        plan == Plan(req)
        k    == step[th]
        n    == Len(Get(REVIEWS_DATASET, req.hotel_id[1]))
        more == k + 1 < Len(plan)
        next == /\ Call(th, plan[k + 2])
                /\ step' = [step EXCEPT ![th] = k + 1]
                /\ UNCHANGED response
    IN  IF k = 0
        THEN /\ hotel_embedding' = [hotel_embedding EXCEPT ![th] = vec]
             /\ UNCHANGED <<review_embedding, normal_results, anomalous_results>>
             /\ IF more
                THEN next
                ELSE /\ FinishJson(th, ReportResponse(<<>>, <<>>))
                     /\ UNCHANGED <<want, requested, step>>
        ELSE /\ review_embedding' = [review_embedding EXCEPT ![th] = vec]
             /\ UNCHANGED hotel_embedding
             /\ LET similarity == cosine_similarity(hotel_embedding[th], vec)
                    record     == ResultRecord(plan[k + 1], similarity)
                IN  IF req.kind = "custom"
                    THEN /\ IF similarity.raised
                            THEN Finish(th, ServerError("ValueError"))
                            ELSE FinishJson(th, SingleResponse(record))
                         /\ UNCHANGED <<want, requested, step, normal_results,
                                        anomalous_results>>
                    ELSE IF similarity.raised
                    THEN /\ Finish(th, ServerError("ValueError"))
                         /\ UNCHANGED <<want, requested, step, normal_results,
                                        anomalous_results>>
                    ELSE /\ IF k <= n
                            THEN /\ normal_results' =
                                        [normal_results EXCEPT ![th] = Append(@, record)]
                                 /\ UNCHANGED anomalous_results
                            ELSE /\ anomalous_results' =
                                        [anomalous_results EXCEPT ![th] = Append(@, record)]
                                 /\ UNCHANGED normal_results
                         /\ IF more
                            THEN next
                            ELSE /\ FinishJson(th, ReportResponse(normal_results'[th],
                                                                  anomalous_results'[th]))
                                 /\ UNCHANGED <<want, requested, step>>

\* a wrapper without memoisation: every call goes to the provider
get_cached_embedding_uncached(th) ==
    /\ pc[th] = "lookup"
    /\ pc' = [pc EXCEPT ![th] = "provider"]
    /\ fetched' = [fetched EXCEPT ![th] = Append(@, want[th])]
    /\ UNCHANGED <<cache, last_returned, recency, request, want, result, step,
                   hotel_embedding, review_embedding, normal_results,
                   anomalous_results, response, requested>>

\* lru_cache wrapper, first half: a hit returns the cached value and marks the
\* entry most recently used; a miss calls the wrapped function
get_cached_embedding(th) ==
    /\ pc[th] = "lookup"
    /\ IF want[th] \in Keys(cache)
       THEN /\ cache' = cache_hit(cache, want[th])
            /\ last_returned' = [last_returned EXCEPT ![want[th]] = Some(Value(cache, want[th]))]
            /\ recency' = Accessed(recency, want[th], Keys(cache'))
            /\ Resume(th, Value(cache, want[th]))
            /\ UNCHANGED <<request, result, fetched>>
       ELSE /\ pc' = [pc EXCEPT ![th] = "provider"]
            /\ fetched' = [fetched EXCEPT ![th] = Append(@, want[th])]
            /\ UNCHANGED <<cache, last_returned, recency, request, want, result, step,
                           hotel_embedding, review_embedding, normal_results,
                           anomalous_results, response, requested>>

\* get_embedding returns result['data'][0]['embedding']
get_embedding(th, vec) ==
    /\ pc[th] = "provider"
    /\ pc' = [pc EXCEPT ![th] = "store"]
    /\ result' = [result EXCEPT ![th] = vec]
    /\ UNCHANGED <<cache, request, want, step, hotel_embedding, review_embedding,
                   normal_results, anomalous_results, response, requested, fetched,
                   last_returned, recency>>

\* a failed provider call answered with a zero vector that is memoised
get_embedding_raises_memoised(th) ==
    /\ pc[th] = "provider"
    /\ cache' = cache_store(cache, want[th], ZeroVec)
    /\ Finish(th, ServerError("EmbeddingError"))
    /\ UNCHANGED <<request, want, result, step, hotel_embedding,
                   review_embedding, normal_results, anomalous_results, requested,
                   fetched, last_returned, recency>>

\* a failed provider call that skips the text and goes on with the next one
get_embedding_raises_continue(th) ==
    /\ pc[th] = "provider"
    /\ IF step[th] + 1 < Len(Plan(request[th]))
       THEN /\ Call(th, Plan(request[th])[step[th] + 2])
            /\ step' = [step EXCEPT ![th] = step[th] + 1]
            /\ UNCHANGED response
       ELSE /\ Finish(th, ServerError("EmbeddingError"))
            /\ UNCHANGED <<want, requested, step>>
    /\ UNCHANGED <<cache, request, result, hotel_embedding,
                   review_embedding, normal_results, anomalous_results,
                   fetched, last_returned, recency>>

\* get_embedding raises (network failure, HTTP error status, malformed body);
\* lru_cache lets the exception through and the handler's except returns 500
get_embedding_raises(th) ==
    /\ pc[th] = "provider"
    /\ Finish(th, ServerError("EmbeddingError"))
    /\ UNCHANGED <<cache, request, want, result, step, hotel_embedding,
                   review_embedding, normal_results, anomalous_results, requested,
                   fetched, last_returned, recency>>

\* lru_cache wrapper, second half: store the result unless the key was added
\* meanwhile, and return the result to the handler
store(th) ==
    /\ pc[th] = "store"
    /\ cache' = cache_store(cache, want[th], result[th])
    /\ last_returned' = [t \in AllTexts |->
                            IF t = want[th] THEN Some(result[th])
                            ELSE IF t \in Keys(cache') THEN last_returned[t]
                            ELSE None]
    /\ recency' = IF want[th] \in Keys(cache) THEN recency
                  ELSE Accessed(recency, want[th], Keys(cache'))
    /\ result' = [result EXCEPT ![th] = <<>>]
    /\ Resume(th, result[th])
    /\ UNCHANGED <<request, fetched>>

\* the response is sent and the thread serves the next request
send_response(th) ==
    /\ pc[th] = "done"
    /\ pc' = [pc EXCEPT ![th] = "idle"]
    /\ request' = [request EXCEPT ![th] = NoRequest]
    /\ want' = [want EXCEPT ![th] = ""]
    /\ result' = [result EXCEPT ![th] = <<>>]
    /\ step' = [step EXCEPT ![th] = 0]
    /\ hotel_embedding' = [hotel_embedding EXCEPT ![th] = <<>>]
    /\ review_embedding' = [review_embedding EXCEPT ![th] = <<>>]
    /\ normal_results' = [normal_results EXCEPT ![th] = <<>>]
    /\ anomalous_results' = [anomalous_results EXCEPT ![th] = <<>>]
    /\ response' = [response EXCEPT ![th] = NoResponse]
    /\ requested' = [requested EXCEPT ![th] = <<>>]
    /\ fetched' = [fetched EXCEPT ![th] = <<>>]
    /\ UNCHANGED <<cache, last_returned, recency>>

-----------------------------------------------------------------------------
(* Specifications *)

\* requests served one at a time
Next ==
    \/ \E hotel_id \in AnalyzeIds : analyze("t1", hotel_id)
    \/ \E req \in CustomRequests(CustomIds, CustomTexts) : custom_review("t1", req)
    \/ get_cached_embedding("t1")
    \/ \E vec \in Vectors : get_embedding("t1", vec)
    \/ get_embedding_raises("t1")
    \/ store("t1")
    \/ send_response("t1")

Spec == Init /\ [][Next]_vars

\* inputs of the concurrent specification
ConcIds == {"hotel_2"}
ConcTexts == {Some("Luxury spa")}
ConcVectors == {VecA, VecC}

\* request handlers running in concurrent threads
NextConc ==
    \E th \in Threads :
        \/ \E hotel_id \in ConcIds : analyze(th, hotel_id)
        \/ \E req \in CustomRequests({Some(i) : i \in ConcIds}, ConcTexts) :
               custom_review(th, req)
        \/ get_cached_embedding(th)
        \/ \E vec \in ConcVectors : get_embedding(th, vec)
        \/ get_embedding_raises(th)
        \/ store(th)
        \/ send_response(th)

SpecConc == Init /\ [][NextConc]_vars

-----------------------------------------------------------------------------
(* Steps of one thread, as seen on a transition *)

\* thread th leaves the cache lookup of get_cached_embedding in this step
LookupStep(th) ==
    pc[th] = "lookup" /\ (pc'[th] # "lookup" \/ requested'[th] # requested[th])

\* thread th stores its provider result in this step
StoreStep(th) == pc[th] = "store" /\ pc'[th] # "store"

\* the vector get_cached_embedding hands to thread th in this step
Returned(th) == IF step[th] = 0 THEN hotel_embedding'[th] ELSE review_embedding'[th]

-----------------------------------------------------------------------------
(* Claims *)

\* C1: once a call for a text has returned a vector, every later call for that
\* text made while it has not been evicted returns the same vector and does not
\* call the provider.
C1_RepeatedCallReturnsCachedVector ==
    [][\A th \in Threads :
          (LookupStep(th) /\ last_returned[want[th]] # None)
              => /\ Returned(th) = last_returned[want[th]][1]
                 /\ pc'[th] # "provider"
                 /\ fetched'[th] = fetched[th]]_vars

\* a finished request that got one of its embeddings from the cache
C1_Witness ==
    \E th \in Threads :
        /\ pc[th] = "done"
        /\ response[th].status = 200
        /\ Len(fetched[th]) < Len(requested[th])

\* C2: the cache never holds more than maxsize entries, and an entry leaves the
\* cache only when a miss stores a new key into a full cache; the entry dropped
\* is then the one whose latest access is the oldest.
C2_BoundedWithLruEviction ==
    /\ [](Len(cache) <= maxsize)
    /\ [][/\ (Keys(cache) \ Keys(cache') # {})
                => \E th \in Threads :
                       StoreStep(th) /\ want[th] \notin Keys(cache) /\ Len(cache) = maxsize
          /\ \A th \in Threads :
                (StoreStep(th) /\ want[th] \notin Keys(cache) /\ Len(cache) = maxsize)
                    => Keys(cache') = (Keys(cache) \ {Head(recency)}) \cup {want[th]}]_vars

\* a request that stored more embeddings than the cache holds
C2_Witness ==
    \E th \in Threads :
        /\ pc[th] = "done"
        /\ response[th].status = 200
        /\ Len(fetched[th]) > maxsize
        /\ Len(cache) = maxsize

-----------------------------------------------------------------------------
(* Result records of a thread *)

Range(f) == {f[i] : i \in DOMAIN f}

Reviews(records) == [i \in 1..Len(records) |-> records[i].review]

\* the records held in the handler's lists and those carried by its response
Records(th) ==
    Range(normal_results[th]) \cup Range(anomalous_results[th])
        \cup Range(response[th].normal_reviews) \cup Range(response[th].anomalous_reviews)
        \cup Range(response[th].review)

Carried(resp) == resp.normal_reviews \o resp.anomalous_reviews \o resp.review

\* C3: a successful analysis of a hotel returns one result per registered
\* review: normal_reviews carries the hotel's normal review texts in their
\* order, anomalous_reviews the anomalous ones.
C3_OneResultPerReviewInOrder ==
    \A th \in Threads :
        (pc[th] = "done" /\ request[th].kind = "analyze"
            /\ response[th].error \in {"", "TypeError"})
            => /\ Reviews(normal_results[th]) = REVIEWS_DATASET[request[th].hotel_id[1]]
               /\ Reviews(anomalous_results[th]) = ANOMALOUS_REVIEWS[request[th].hotel_id[1]]
               /\ response[th].status = 200
                     => /\ response[th].normal_reviews = normal_results[th]
                        /\ response[th].anomalous_reviews = anomalous_results[th]

\* the analysis of hotel_1, with two normal reviews and one anomalous, answered
C3_Witness ==
    \E th \in Threads :
        /\ pc[th] = "done"
        /\ request[th] = AnalyzeRequest("hotel_1")
        /\ response[th].status = 200
        /\ Len(response[th].normal_reviews) = 2
        /\ Len(response[th].anomalous_reviews) = 1

\* C4: in every result record needs_check is true exactly when the record's
\* similarity is strictly below the threshold; a similarity equal to the
\* threshold gives needs_check = FALSE.
C4_NeedsCheckIffBelowThreshold ==
    \A th \in Threads :
        /\ \A r \in Records(th) :
              r.needs_check <=>
                  (r.similarity.den # 0
                      /\ 4 * r.similarity.num < 3 * r.similarity.den)
        /\ response[th].status = 200 =>
              response[th].threshold = <<[num |-> 3, den |-> 4]>>

\* a response carrying a record whose similarity equals the threshold
C4_Witness ==
    \E th \in Threads :
        /\ pc[th] = "done"
        /\ response[th].status = 200
        /\ \E r \in Range(Carried(response[th])) :
              /\ r.similarity.den # 0
              /\ 4 * r.similarity.num = 3 * r.similarity.den
              /\ ~r.needs_check

\* a request that names an entity id which is not a key of HOTEL_DATA
NamesUnknownId(req) ==
    /\ req.kind \in {"analyze", "custom"}
    /\ req.kind = "custom" => (req.body /\ Truthy(req.review_text))
    /\ req.hotel_id # None
    /\ req.hotel_id[1] \notin DOMAIN HOTEL_DATA

\* C5 as stated: every entity id that is not a key of the entity table gets the
\* not-found outcome from both endpoints, without any embedding being requested.
C5_UnknownIdIsNotFound ==
    \A th \in Threads :
        (pc[th] = "done" /\ NamesUnknownId(request[th]))
            => /\ response[th].status = 404
               /\ requested[th] = <<>>
               /\ fetched[th] = <<>>

\* C5 amended: every non-empty entity id that is not a key of the entity table
\* gets the not-found outcome from both endpoints, without any embedding being
\* requested and with the cache left as it was.
C5_NonEmptyUnknownIdIsNotFound ==
    /\ [](\A th \in Threads :
            (NamesUnknownId(request[th]) /\ Truthy(request[th].hotel_id))
                => /\ pc[th] = "done"
                   /\ response[th].status = 404
                   /\ requested[th] = <<>>
                   /\ fetched[th] = <<>>)
    /\ [][\A th \in Threads :
            (NamesUnknownId(request'[th]) /\ Truthy(request'[th].hotel_id)
                /\ request[th] = NoRequest)
                => cache' = cache]_vars

\* a custom review for the unknown hotel_9, answered while the cache holds entries
C5_Witness ==
    \E th \in Threads :
        /\ pc[th] = "done"
        /\ request[th] = CustomRequest(TRUE, Some("hotel_9"), Some("Custom text"))
        /\ response[th].status = 404
        /\ Len(cache) = maxsize

\* C6: a custom-review request without entity id or without review text (field
\* absent, or no body at all) gets the invalid-request outcome, before the
\* entity lookup and before any embedding is requested.
C6_MissingFieldIsInvalidRequest ==
    \A th \in Threads :
        (pc[th] # "idle" /\ request[th].kind = "custom"
            /\ (~request[th].body \/ request[th].hotel_id = None
                    \/ request[th].review_text = None))
            => /\ pc[th] = "done"
               /\ response[th].status = 400
               /\ requested[th] = <<>>
               /\ fetched[th] = <<>>

\* the handler computed a similarity from vectors cosine_similarity must reject
ScoredInvalidVectors(th) ==
    /\ review_embedding[th] # <<>>
    /\ \/ Len(hotel_embedding[th]) # Len(review_embedding[th])
       \/ norm(hotel_embedding[th]) = 0
       \/ norm(review_embedding[th]) = 0

\* C7: cosine_similarity gives no score for vectors of different lengths or for
\* a zero-norm vector: it raises, so the handler ends with an error and no
\* result record comes from such vectors (in particular none carries NaN).
C7_InvalidVectorsRaise ==
    \A th \in Threads :
        /\ ScoredInvalidVectors(th)
              => (pc[th] = "done" /\ response[th].status = 500)
        /\ \A r \in Records(th) : r.similarity.den # 0

\* the provider call of thread th fails in this step
ProviderFailure(th) == pc[th] = "provider" /\ pc'[th] \notin {"provider", "store"}

\* thread th is handed a review vector whose length differs from the hotel's
SimilarityFailure(th) ==
    /\ LookupStep(th) \/ StoreStep(th)
    /\ pc'[th] # "provider"
    /\ step[th] >= 1
    /\ Len(Returned(th)) # Len(hotel_embedding[th])

\* C8: analyze_hotel_reviews is fail-fast: when the embedding of the hotel text
\* or of a review, or its similarity, fails, the request ends with an error
\* that carries no result, and no further embedding is requested for it.
C8_FailFast ==
    /\ [][\A th \in Threads :
            (request[th].kind = "analyze" /\ (ProviderFailure(th) \/ SimilarityFailure(th)))
                => /\ pc'[th] = "done"
                   /\ response'[th].status = 500
                   /\ Carried(response'[th]) = <<>>
                   /\ requested'[th] = requested[th]
                   /\ fetched'[th] = fetched[th]]_vars
    /\ [][\A th \in Threads :
            (request[th].kind = "analyze" /\ pc[th] = "done")
                => /\ requested'[th] \in {requested[th], <<>>}
                   /\ fetched'[th] \in {fetched[th], <<>>}
                   /\ pc'[th] \in {"done", "idle"}]_vars
    /\ [](\A th \in Threads :
            (pc[th] = "done" /\ response[th].status = 500)
                => Carried(response[th]) = <<>>)

\* an analysis that failed after a review was scored, with reviews left
C8_Witness ==
    \E th \in Threads :
        /\ pc[th] = "done"
        /\ request[th].kind = "analyze"
        /\ response[th].status = 500
        /\ normal_results[th] # <<>>
        /\ Len(requested[th]) < Len(Plan(request[th]))

\* C9: under any interleaving of handlers the cache holds at most one entry per
\* key and at most maxsize entries, every entry is a vector the provider
\* returned for its key to the thread that stored it, and every call returns a
\* vector for its key: the cached one on a hit, the provider's on a miss.
C9_ConcurrentCacheSound ==
    /\ [](Len(cache) <= maxsize /\ Cardinality(Keys(cache)) = Len(cache))
    /\ [][/\ \A i \in 1..Len(cache') :
                \/ cache'[i] \in Range(cache)
                \/ \E th \in Threads :
                      /\ StoreStep(th)
                      /\ cache'[i] = [key |-> want[th], value |-> result[th]]
          /\ \A th \in Threads :
                /\ StoreStep(th) => Returned(th) = result[th]
                /\ (LookupStep(th) /\ pc'[th] # "provider")
                      => (want[th] \in Keys(cache)
                             /\ Returned(th) = Value(cache, want[th]))]_vars

\* two threads missed on the same text and hold different provider results
C9_Witness ==
    /\ pc["t1"] = "store"
    /\ pc["t2"] = "store"
    /\ want["t1"] = want["t2"]
    /\ result["t1"] # result["t2"]

\* C10: a failed provider call is not memoised: the cache stays as it was, the
\* text is not cached, the error reaches the handler, and a call for a text that
\* is not cached goes to the provider.
C10_FailureNotMemoised ==
    /\ [][\A th \in Threads :
            ProviderFailure(th)
                => /\ cache' = cache
                   /\ want[th] \notin Keys(cache')
                   /\ pc'[th] = "done"
                   /\ response'[th].status = 500]_vars
    /\ [][\A th \in Threads :
            (LookupStep(th) /\ want[th] \notin Keys(cache))
                => pc'[th] = "provider"]_vars

\* a provider failure in an analysis whose earlier embedding is still cached
C10_Witness ==
    \E th \in Threads :
        /\ pc[th] = "done"
        /\ response[th].error = "EmbeddingError"
        /\ Len(fetched[th]) >= 2
        /\ fetched[th][1] \in Keys(cache)
        /\ fetched[th][Len(fetched[th])] \notin Keys(cache)

====
